---- MODULE Spec2Model ----
(***************************************************************************)
(* Constraint composition and witness checking of the halo2 example        *)
(* circuits: the Fibonacci chip, the numeric (multiplication) chip, the    *)
(* two range checks and the is-zero / compose chip.                        *)
(*                                                                         *)
(* A behaviour is one MockProver run: synthesize fills the grid region by  *)
(* region, then the checker evaluates every gate, lookup and copy          *)
(* constraint and records the failures.                                    *)
(***************************************************************************)
EXTENDS Integers, Sequences, FiniteSets, TLC

(***************************************************************************)
(* Bounds of the model.  The field of the source is generic (F: FieldExt); *)
(* the model uses a small prime field, and small const-generic ranges.     *)
(***************************************************************************)
SmallPrimes == <<5, 7, 11, 13, 17>>
FieldIdx == 2
P == SmallPrimes[FieldIdx]
F == 0 .. (P - 1)

RANGE == 3
LOOKUP_RANGE == 5
\* seeds of the long circuits when witnesses are forged: 0 .. MaxSeed
MaxSeed == 1

\* let k = 4: the grid has 2^k rows
K == 4
NumRows == 2 ^ K
Rows == 0 .. (NumRows - 1)

\* for _i in 3..10
LoopFrom == 3
LoopTo == 10
\* chip.expose_public(.., prev_c, 2) and field_chip.expose_public(.., c, 0)
FibOutRow == 2
NumOutRow == 0

(***************************************************************************)
(* Field arithmetic (F: FieldExt)                                          *)
(***************************************************************************)
Add(x, y) == (x + y) % P
Sub(x, y) == ((x + P) - y) % P
Mul(x, y) == (x * y) % P
\* value.invert().unwrap_or(F::zero())
InvertOrZero(x) == IF x % P = 0 THEN 0 ELSE CHOOSE y \in F : (x * y) % P = 1
\* F::from(i as u64)
FromU64(n) == n % P

VARIABLES circuit, pc, i, inp, instance, grid, sel, copies, regions, h,
          forged, failures

vars == <<circuit, pc, i, inp, instance, grid, sel, copies, regions, h,
          forged, failures>>

Circuits == {"fibonacci", "numeric", "range1", "range2", "compose"}

EmptyFn == [x \in {} |-> 0]
NoInputs == [a |-> 0, b |-> 0, c |-> 0, constant |-> 0, value |-> 0, lookup_value |-> 0]

(***************************************************************************)
(* Cells.  A cell is <<column, row>>; the instance column is read from the *)
(* public input vector (rows past its end hold zero), every other column   *)
(* from the grid (an unassigned cell evaluates to zero).                   *)
(***************************************************************************)
IsAssigned(cell) ==
    IF cell[1] = "instance" THEN cell[2] < Len(instance) ELSE cell \in DOMAIN grid

CellVal(cell) ==
    IF cell[1] = "instance"
    THEN (IF cell[2] < Len(instance) THEN instance[cell[2] + 1] ELSE 0)
    ELSE (IF cell \in DOMAIN grid THEN grid[cell] ELSE 0)

\* meta.query_advice(column, rotation) at row r
Query(col, r) == CellVal(<<col, r % NumRows>>)
\* meta.query_selector(selector) at row r
QuerySel(s, r) == IF <<s, r % NumRows>> \in sel THEN 1 ELSE 0

(***************************************************************************)
(* Gates, as configure registers them.  Each operator is the constraint    *)
(* polynomial over the queried values of one row.                          *)
(***************************************************************************)

\* a sign slip in the "add" gate: s * (a - b - c)
add_gate_sign(s, a, b, c) == Mul(s, Sub(Sub(a, b), c))

\* "add": vec![s * (a + b - c)]
add_gate(s, a, b, c) == Mul(s, Sub(Add(a, b), c))

\* "mul": vec![selector * (lhs * rhs - out)]
mul_gate(s, lhs, rhs, out) == Mul(s, Sub(Mul(lhs, rhs), out))


\* (1..range).fold(value, |expr, i| expr * (Constant(i) - value))
RECURSIVE RangeFold(_, _, _, _)
RangeFold(expr, n, range, value) ==
    IF n >= range THEN expr
    ELSE RangeFold(Mul(expr, Sub(FromU64(n), value)), n + 1, range, value)

\* the product without its leading value factor: (1 - v) * ... * (range-1 - v)
range_check_no_value(range, value) == RangeFold(1, 1, range, value)
range_check(range, value) == RangeFold(value, 1, range, value)

\* Constraints::with_selector(q, [("range check", range_check(RANGE, value))])
range_check_gate(q, value) == Mul(q, range_check(RANGE, value))

\* the lookup input without its selector: vec![(value, table.value)]
lookup_input_no_selector(q_lookup, value) == value % P
\* meta.lookup: vec![(q_lookup * value, table.value)]
lookup_input(q_lookup, value) == Mul(q_lookup, value)

\* a sign slip: 1 + value * value_inv
is_zero_expr_sign(value, value_inv) == Add(1, Mul(value, value_inv))
\* is_zero_expr = Constant(1) - value * value_inv
is_zero_expr(value, value_inv) == Sub(1, Mul(value, value_inv))

\* the gate without its value factor: q_enable * is_zero_expr
is_zero_gate_no_value(q_enable, value, value_inv) ==
    Mul(q_enable, is_zero_expr(value, value_inv))
\* "is zero": vec![q_enable * value * is_zero_expr]
is_zero_gate(q_enable, value, value_inv) ==
    Mul(Mul(q_enable, value), is_zero_expr(value, value_inv))

\* "f(a, b, c) = a == b ? c : a - b", first constraint:
\*   s * a_equals_b.expr() * (output - c)
compose_gate_eq(s, a, b, c, output, value_inv) ==
    Mul(Mul(s, is_zero_expr(Sub(a, b), value_inv)), Sub(output, c))

\* the second constraint comparing output with a + b
compose_gate_ne_sum(s, a, b, c, output, value_inv) ==
    Mul(Mul(s, Sub(1, is_zero_expr(Sub(a, b), value_inv))),
        Sub(output, Add(a, b)))
\* second constraint: s * (1 - a_equals_b.expr()) * (output - (a - b))
compose_gate_ne(s, a, b, c, output, value_inv) ==
    Mul(Mul(s, Sub(1, is_zero_expr(Sub(a, b), value_inv))),
        Sub(output, Sub(a, b)))

(***************************************************************************)
(* Region / layouter engine.                                               *)
(***************************************************************************)
MaxOf(S) == IF S = {} THEN 0 ELSE CHOOSE m \in S : \A x \in S : x <= m

RegionSet == {regions[n] : n \in 1 .. Len(regions)}

\* SimpleFloorPlanner: a region starts at the first row that is free in
\* every column of its shape (selectors included).
SimpleStart(cols) ==
    MaxOf({r.start + r.rows : r \in {x \in RegionSet : x.cols \cap cols # {}}})

\* V1 floor planner: the regions are measured first and slotted in an order
\* of the planner's own; any start row that overlaps no placed region in a
\* shared column may be the one it picks.
V1Starts(cols, rows, nregions) ==
    {s \in 0 .. (nregions * rows - 1) :
        \A r \in RegionSet :
            r.cols \cap cols = {} \/ s + rows <= r.start \/ r.start + r.rows <= s}

Region(name, start, rows, cols) ==
    [name |-> name, start |-> start, rows |-> rows, cols |-> cols]

\* region.assign_advice / assign_fixed: write one cell
Assign(g, cell, v) == (cell :> v) @@ g

\* the AssignedCell handed back to the caller
Handle(cell, v) == [cell |-> cell, value |-> v]

\* a copy constraint is an unordered pair of cells
Copy(x, y) == {x, y}

(***************************************************************************)
(* One MockProver::run: the circuit, its private inputs and the public     *)
(* input vector are fixed at the start; nothing is assigned yet.           *)
(***************************************************************************)
FirstStep(cn) ==
    CASE cn = "fibonacci" -> "first_row"
      [] cn = "numeric"   -> "load_a"
      [] cn = "range1"    -> "assign"
      [] cn = "range2"    -> "load_table"
      [] cn = "compose"   -> "assign"

InputsOf(cn) ==
    CASE cn = "fibonacci" -> {NoInputs}
      [] cn = "numeric"   ->
           {[NoInputs EXCEPT !.constant = k, !.a = a, !.b = b] :
                k \in F, a \in F, b \in F}
      [] cn = "range1"    -> {[NoInputs EXCEPT !.value = v] : v \in F}
      [] cn = "range2"    ->
           {[NoInputs EXCEPT !.value = v, !.lookup_value = w] : v \in F, w \in F}
      [] cn = "compose"   ->
           {[NoInputs EXCEPT !.a = a, !.b = b, !.c = c] : a \in F, b \in F, c \in F}

InstancesOf(cn) ==
    CASE cn = "fibonacci" -> [1 .. 3 -> F]
      [] cn = "numeric"   -> [1 .. 1 -> F]
      [] OTHER            -> {<<>>}

Init ==
    /\ circuit \in Circuits
    /\ pc = FirstStep(circuit)
    /\ i = LoopFrom
    /\ inp \in InputsOf(circuit)
    /\ instance \in InstancesOf(circuit)
    /\ grid = EmptyFn
    /\ sel = {}
    /\ copies = {}
    /\ regions = <<>>
    /\ h = EmptyFn
    /\ forged = FALSE
    /\ failures = {}

\* the same start, the long circuits seeded from 0 .. MaxSeed only
Seeds == 0 .. MaxSeed

InitForged ==
    /\ Init
    /\ circuit = "fibonacci" => \A n \in 1 .. 3 : instance[n] \in Seeds
    /\ circuit = "numeric" =>
          /\ instance[1] \in Seeds
          /\ inp.constant \in Seeds /\ inp.a \in Seeds /\ inp.b \in Seeds

(***************************************************************************)
(* Fibonacci chip                                                          *)
(***************************************************************************)
FibCols == {"selector", "col_a", "col_b", "col_c"}

FibonacciChip_assign_first_row ==
    /\ circuit = "fibonacci"
    /\ pc = "first_row"
    /\ LET s == SimpleStart(FibCols)
           a_cell == Handle(<<"col_a", s>>, CellVal(<<"instance", 0>>))
           b_cell == Handle(<<"col_b", s>>, CellVal(<<"instance", 1>>))
           c_cell == Handle(<<"col_c", s>>, Add(a_cell.value, b_cell.value))
       IN /\ regions' = Append(regions, Region("first row", s, 1, FibCols))
          /\ sel' = sel \cup {<<"selector", s>>}
          /\ grid' = Assign(Assign(Assign(grid, a_cell.cell, a_cell.value),
                                   b_cell.cell, b_cell.value),
                            c_cell.cell, c_cell.value)
          /\ copies' = copies \cup {Copy(a_cell.cell, <<"instance", 0>>),
                                    Copy(b_cell.cell, <<"instance", 1>>)}
          /\ h' = ("prev_b" :> b_cell) @@ ("prev_c" :> c_cell) @@ h
    /\ pc' = IF LoopFrom < LoopTo THEN "next_row" ELSE "expose"
    /\ UNCHANGED <<circuit, i, inp, instance, forged, failures>>

\* the handle left where it was: prev_b never advanced
LoopPrevB_stale(prev_b, prev_c) == prev_b
\* prev_b = prev_c;
LoopPrevB(prev_b, prev_c) == prev_c

\* one iteration of  for _i in 3..10 { assign_row; prev_b = prev_c; prev_c = c_cell }
FibonacciChip_assign_row ==
    /\ circuit = "fibonacci"
    /\ pc = "next_row"
    /\ i < LoopTo
    /\ LET s == SimpleStart(FibCols)
           prev_b == h["prev_b"]
           prev_c == h["prev_c"]
           a_new == <<"col_a", s>>
           b_new == <<"col_b", s>>
           c_cell == Handle(<<"col_c", s>>, Add(prev_b.value, prev_c.value))
       IN /\ regions' = Append(regions, Region("next row", s, 1, FibCols))
          /\ sel' = sel \cup {<<"selector", s>>}
          /\ grid' = Assign(Assign(Assign(grid, a_new, prev_b.value),
                                   b_new, prev_c.value),
                            c_cell.cell, c_cell.value)
          /\ copies' = copies \cup {Copy(a_new, prev_b.cell), Copy(b_new, prev_c.cell)}
          /\ h' = ("prev_b" :> LoopPrevB(prev_b, prev_c)) @@ ("prev_c" :> c_cell) @@ h
    /\ i' = i + 1
    /\ pc' = IF i + 1 < LoopTo THEN "next_row" ELSE "expose"
    /\ UNCHANGED <<circuit, inp, instance, forged, failures>>

\* layouter.constrain_instance(cell.cell(), self.config.instance, row)
FibonacciChip_expose_public ==
    /\ circuit = "fibonacci"
    /\ pc = "expose"
    /\ copies' = copies \cup {Copy(h["prev_c"].cell, <<"instance", FibOutRow>>)}
    /\ pc' = "verify"
    /\ UNCHANGED <<circuit, i, inp, instance, grid, sel, regions, h, forged, failures>>

(***************************************************************************)
(* Numeric chip (FieldChip)                                                *)
(***************************************************************************)
\* load a, load b
FieldChip_load_private ==
    /\ circuit = "numeric"
    /\ pc \in {"load_a", "load_b"}
    /\ LET s == SimpleStart({"advice0"})
           value == IF pc = "load_a" THEN inp.a ELSE inp.b
           name == IF pc = "load_a" THEN "a" ELSE "b"
           cell == <<"advice0", s>>
       IN /\ regions' = Append(regions, Region("load private", s, 1, {"advice0"}))
          /\ grid' = Assign(grid, cell, value)
          /\ h' = (name :> Handle(cell, value)) @@ h
    /\ pc' = IF pc = "load_a" THEN "load_b" ELSE "load_constant"
    /\ UNCHANGED <<circuit, i, inp, instance, sel, copies, forged, failures>>

\* assign_advice_from_constant: the advice cell holds the constant and is
\* copy-constrained to a cell of the fixed constants column holding it.
FieldChip_load_constant ==
    /\ circuit = "numeric"
    /\ pc = "load_constant"
    /\ LET s == SimpleStart({"advice0"})
           cell == <<"advice0", s>>
           fixed == <<"constant", Cardinality({x \in DOMAIN grid : x[1] = "constant"})>>
       IN /\ regions' = Append(regions, Region("load constant", s, 1, {"advice0"}))
          /\ grid' = Assign(Assign(grid, cell, inp.constant), fixed, inp.constant)
          /\ copies' = copies \cup {Copy(cell, fixed)}
          /\ h' = ("constant" :> Handle(cell, inp.constant)) @@ h
    /\ pc' = "mul_ab"
    /\ UNCHANGED <<circuit, i, inp, instance, sel, forged, failures>>

MulCols == {"selector", "advice0", "advice1"}

\* assign_advice(|| "lhs * rhs", config.advice[0], 1, ..): the product's offset
MulOutOffset == 1

\* a shape that counts the selector's row only
MulRegionRows_one == MulOutOffset
\* the mul region spans offsets 0 .. MulOutOffset
MulRegionRows == MulOutOffset + 1

\* the product cell witnessed as a sum
MulValue_sum(a, b) == Add(a.value, b.value)
\* let value = a.0.value().copied() * b.0.value();
MulValue(a, b) == Mul(a.value, b.value)

\* mul(a, b), mul(ab, ab), mul(constant, ab_sq)
FieldChip_mul ==
    /\ circuit = "numeric"
    /\ pc \in {"mul_ab", "mul_ab_sq", "mul_c"}
    /\ LET s == SimpleStart(MulCols)
           a == CASE pc = "mul_ab" -> h["a"]
                  [] pc = "mul_ab_sq" -> h["ab"]
                  [] pc = "mul_c" -> h["constant"]
           b == CASE pc = "mul_ab" -> h["b"]
                  [] pc = "mul_ab_sq" -> h["ab"]
                  [] pc = "mul_c" -> h["ab_sq"]
           name == CASE pc = "mul_ab" -> "ab"
                     [] pc = "mul_ab_sq" -> "ab_sq"
                     [] pc = "mul_c" -> "c"
           lhs == <<"advice0", s>>
           rhs == <<"advice1", s>>
           out == Handle(<<"advice0", s + MulOutOffset>>, MulValue(a, b))
       IN /\ regions' = Append(regions, Region("mul", s, MulRegionRows, MulCols))
          /\ sel' = sel \cup {<<"selector", s>>}
          /\ grid' = Assign(Assign(Assign(grid, lhs, a.value), rhs, b.value),
                            out.cell, out.value)
          /\ copies' = copies \cup {Copy(lhs, a.cell), Copy(rhs, b.cell)}
          /\ h' = (name :> out) @@ h
    /\ pc' = CASE pc = "mul_ab" -> "mul_ab_sq"
               [] pc = "mul_ab_sq" -> "mul_c"
               [] pc = "mul_c" -> "expose"
    /\ UNCHANGED <<circuit, i, inp, instance, forged, failures>>

\* layouter.constrain_instance(num.0.cell(), config.instance, row)
FieldChip_expose_public ==
    /\ circuit = "numeric"
    /\ pc = "expose"
    /\ copies' = copies \cup {Copy(h["c"].cell, <<"instance", NumOutRow>>)}
    /\ pc' = "verify"
    /\ UNCHANGED <<circuit, i, inp, instance, grid, sel, regions, h, forged, failures>>

(***************************************************************************)
(* Range checks                                                            *)
(***************************************************************************)
\* example1: RangeCheckConfig::assign
RangeCheck1_assign ==
    /\ circuit = "range1"
    /\ pc = "assign"
    /\ \E s \in V1Starts({"q_range_check", "value"}, 1, 1) :
          /\ regions' = Append(regions,
                               Region("Assign region", s, 1, {"q_range_check", "value"}))
          /\ sel' = sel \cup {<<"q_range_check", s>>}
          /\ grid' = Assign(grid, <<"value", s>>, inp.value)
    /\ pc' = "verify"
    /\ UNCHANGED <<circuit, i, inp, instance, copies, h, forged, failures>>

\* the fixed table column holds 0 .. LOOKUP_RANGE-1, one value per row
TableRows == 0 .. (LOOKUP_RANGE - 1)
TableEntry(r) == FromU64(r)

LoadedTable == [x \in {<<"table", r>> : r \in TableRows} |-> TableEntry(x[2])]

\* config.table.load(&mut layouter)
RangeTable_load ==
    /\ circuit = "range2"
    /\ pc = "load_table"
    /\ grid' = LoadedTable @@ grid
    /\ pc' = "assign_simple"
    /\ UNCHANGED <<circuit, i, inp, instance, sel, copies, regions, h, forged, failures>>

SimpleSelectors == {"q_range_check"}

RangeCheck2_assign_simple ==
    /\ circuit = "range2"
    /\ pc = "assign_simple"
    /\ \E s \in V1Starts(SimpleSelectors \cup {"value"}, 1, 2) :
          /\ regions' = Append(regions,
                 Region("Assign for simple", s, 1, SimpleSelectors \cup {"value"}))
          /\ sel' = sel \cup {<<q, s>> : q \in SimpleSelectors}
          /\ grid' = Assign(grid, <<"value", s>>, inp.value)
    /\ pc' = "assign_lookup"
    /\ UNCHANGED <<circuit, i, inp, instance, copies, h, forged, failures>>

\* the lookup region also enabling the direct range check
LookupSelectors_both == {"q_lookup", "q_range_check"}

\* the lookup region enabling the direct range check instead of the lookup
LookupSelectors_wrong == {"q_range_check"}
LookupSelectors == {"q_lookup"}

RangeCheck2_assign_lookup ==
    /\ circuit = "range2"
    /\ pc = "assign_lookup"
    /\ \E s \in V1Starts(LookupSelectors \cup {"value"}, 1, 2) :
          /\ regions' = Append(regions,
                 Region("Assign for lookup", s, 1, LookupSelectors \cup {"value"}))
          /\ sel' = sel \cup {<<q, s>> : q \in LookupSelectors}
          /\ grid' = Assign(grid, <<"value", s>>, inp.lookup_value)
    /\ pc' = "verify"
    /\ UNCHANGED <<circuit, i, inp, instance, copies, h, forged, failures>>

(***************************************************************************)
(* Is-zero gadget and the compose chip                                     *)
(***************************************************************************)
\* the inverse never taken: the value itself is written
IsZeroInv_identity(value) == value % P
\* let value_inv = value.map(|value| value.invert().unwrap_or(F::zero()));
IsZeroInv(value) == InvertOrZero(value)

\* IsZeroChip::assign(region, offset, value)
IsZeroChip_assign(g, row, value) == Assign(g, <<"value_inv", row>>, IsZeroInv(value))

\* the difference taken the other way round
ComposeOutput_swapped(a, b, c) == IF a = b THEN c ELSE Sub(b, a)
\* let output = if a == b { c } else { a - b };
ComposeOutput(a, b, c) == IF a = b THEN c ELSE Sub(a, b)

ComposeCols == {"selector", "a", "b", "c", "value_inv", "output"}

ComposeChip_assign ==
    /\ circuit = "compose"
    /\ pc = "assign"
    /\ LET s == SimpleStart(ComposeCols)
           g1 == Assign(Assign(Assign(grid, <<"a", s>>, inp.a), <<"b", s>>, inp.b),
                        <<"c", s>>, inp.c)
           g2 == IsZeroChip_assign(g1, s, Sub(inp.a, inp.b))
           output == Handle(<<"output", s>>, ComposeOutput(inp.a, inp.b, inp.c))
       IN /\ regions' = Append(regions,
                 Region("f(a, b, c) = a == b ? c : a - b", s, 1, ComposeCols))
          /\ sel' = sel \cup {<<"selector", s>>}
          /\ grid' = Assign(g2, output.cell, output.value)
          /\ h' = ("output" :> output) @@ h
    /\ pc' = "verify"
    /\ UNCHANGED <<circuit, i, inp, instance, copies, forged, failures>>

(***************************************************************************)
(* Witness checker: every gate at every row, every lookup row, every copy  *)
(* constraint class.  All violations are collected.                        *)
(***************************************************************************)
Failure(kind, name, index, row, cells) ==
    [kind |-> kind, name |-> name, index |-> index, row |-> row, cells |-> cells]

ConstraintFailure(name, index, row) == Failure("Constraint", name, index, row, {})
LookupFailure(row) == Failure("Lookup", "lookup", 0, row, {})
CopyFailure(pair) == Failure("Copy", "copy", 0, 0, pair)

AddRow(r) ==
    add_gate(QuerySel("selector", r), Query("col_a", r), Query("col_b", r),
             Query("col_c", r))

MulRow(r) ==
    mul_gate(QuerySel("selector", r), Query("advice0", r), Query("advice1", r),
             Query("advice0", r + 1))

RangeRow(r) == range_check_gate(QuerySel("q_range_check", r), Query("value", r))

LookupRow(r) == lookup_input(QuerySel("q_lookup", r), Query("value", r))

IsZeroRow(r) ==
    is_zero_gate(QuerySel("selector", r), Sub(Query("a", r), Query("b", r)),
                 Query("value_inv", r))

ComposeEqRow(r) ==
    compose_gate_eq(QuerySel("selector", r), Query("a", r), Query("b", r),
                    Query("c", r), Query("output", r), Query("value_inv", r))

ComposeNeRow(r) ==
    compose_gate_ne(QuerySel("selector", r), Query("a", r), Query("b", r),
                    Query("c", r), Query("output", r), Query("value_inv", r))

GateFailures ==
    CASE circuit = "fibonacci" ->
           {ConstraintFailure("add", 0, r) : r \in {x \in Rows : AddRow(x) # 0}}
      [] circuit = "numeric" ->
           {ConstraintFailure("mul", 0, r) : r \in {x \in Rows : MulRow(x) # 0}}
      [] circuit \in {"range1", "range2"} ->
           {ConstraintFailure("range check", 0, r) :
                r \in {x \in Rows : RangeRow(x) # 0}}
      [] circuit = "compose" ->
           {ConstraintFailure("is zero", 0, r) :
                r \in {x \in Rows : IsZeroRow(x) # 0}}
           \cup {ConstraintFailure("f(a, b, c) = a == b ? c : a - b", 0, r) :
                r \in {x \in Rows : ComposeEqRow(x) # 0}}
           \cup {ConstraintFailure("f(a, b, c) = a == b ? c : a - b", 1, r) :
                r \in {x \in Rows : ComposeNeRow(x) # 0}}

\* the values present in the table column (membership, not position)
TableValues == {grid[x] : x \in {y \in DOMAIN grid : y[1] = "table"}}

LookupFailures ==
    IF circuit = "range2"
    THEN {LookupFailure(r) : r \in {x \in Rows : LookupRow(x) \notin TableValues}}
    ELSE {}

\* union-find over the recorded copy constraints
RECURSIVE ClassFrom(_)
ClassFrom(S) ==
    LET T == S \cup UNION {e \in copies : e \cap S # {}}
    IN IF T = S THEN S ELSE ClassFrom(T)

ClassOf(x) == ClassFrom({x})

EqCells == UNION copies

\* the equivalence classes of the cells that copy constraints mention
Classes == {ClassOf(x) : x \in EqCells}

\* pairs of assigned cells of one class that disagree
Disagreeing ==
    {e \in UNION {{{x, y} : x \in cl, y \in cl} : cl \in Classes} :
        \E x \in e : \E y \in e :
            /\ x # y
            /\ IsAssigned(x) /\ IsAssigned(y)
            /\ CellVal(x) # CellVal(y)}

\* only the pairs that were recorded directly, not the whole class
CopyFailures_recorded ==
    {CopyFailure(e) : e \in {d \in Disagreeing : d \in copies}}
CopyFailures == {CopyFailure(e) : e \in Disagreeing}

Failures == GateFailures \cup LookupFailures \cup CopyFailures

\* MockProver::verify
Verify ==
    /\ pc = "verify"
    /\ failures' = Failures
    /\ pc' = "done"
    /\ UNCHANGED <<circuit, i, inp, instance, grid, sel, copies, regions, h, forged>>

(***************************************************************************)
(* A candidate witness need not be the one synthesize wrote: before the    *)
(* check, a prover may put any value into an advice cell.                  *)
(***************************************************************************)
AdviceColumns == {"col_a", "col_b", "col_c", "advice0", "advice1", "value",
                  "a", "b", "c", "output", "value_inv"}

Forge ==
    /\ pc = "verify"
    /\ ~forged
    /\ \E cell \in {x \in DOMAIN grid : x[1] \in AdviceColumns} :
          \E v \in F \ {grid[cell]} :
              grid' = [grid EXCEPT ![cell] = v]
    /\ forged' = TRUE
    /\ UNCHANGED <<circuit, pc, i, inp, instance, sel, copies, regions, h, failures>>

Next ==
    \/ FibonacciChip_assign_first_row
    \/ FibonacciChip_assign_row
    \/ FibonacciChip_expose_public
    \/ FieldChip_load_private
    \/ FieldChip_load_constant
    \/ FieldChip_mul
    \/ FieldChip_expose_public
    \/ RangeCheck1_assign
    \/ RangeTable_load
    \/ RangeCheck2_assign_simple
    \/ RangeCheck2_assign_lookup
    \/ ComposeChip_assign
    \/ Verify

Spec == Init /\ [][Next]_vars

NextForged == Next \/ Forge

SpecForged == InitForged /\ [][NextForged]_vars

(***************************************************************************)
(* The checker on an arbitrary row: the witness matrix and the selector    *)
(* column are inputs of the check, so a claim about every witness of a     *)
(* gate is checked with row 0 (and, for "mul", the next row of advice0)    *)
(* holding any values and each selector enabled or not.                    *)
(***************************************************************************)
SelectorsOf(cn) ==
    CASE cn \in {"fibonacci", "numeric", "compose"} -> {"selector"}
      [] cn = "range1" -> {"q_range_check"}
      [] cn = "range2" -> {"q_range_check", "q_lookup"}

RowCells(cn) ==
    CASE cn = "fibonacci" -> {<<"col_a", 0>>, <<"col_b", 0>>, <<"col_c", 0>>}
      [] cn = "numeric" -> {<<"advice0", 0>>, <<"advice1", 0>>, <<"advice0", 1>>}
      [] cn \in {"range1", "range2"} -> {<<"value", 0>>}
      [] cn = "compose" ->
           {<<"a", 0>>, <<"b", 0>>, <<"c", 0>>, <<"output", 0>>, <<"value_inv", 0>>}

InitRow ==
    /\ circuit \in Circuits
    /\ pc = "verify"
    /\ i = LoopFrom
    /\ inp = NoInputs
    /\ instance = <<>>
    /\ sel \in {{<<q, 0>> : q \in S} : S \in SUBSET SelectorsOf(circuit)}
    /\ grid \in {w @@ (IF circuit = "range2" THEN LoadedTable ELSE EmptyFn) :
                    w \in {x \in [RowCells(circuit) -> F] :
                              circuit = "compose" => x[<<"c", 0>>] \in Seeds}}
    /\ copies = {}
    /\ regions = <<>>
    /\ h = EmptyFn
    /\ forged = TRUE
    /\ failures = {}

SpecRow == InitRow /\ [][Verify]_vars

(***************************************************************************)
(* Properties                                                              *)
(***************************************************************************)
Done(cn) == circuit = cn /\ pc = "done"

HasGateFailure(name) == \E f \in failures : f.kind = "Constraint" /\ f.name = name

\* the linear recurrence f(n+2) = f(n) + f(n+1), n steps from (a, b)
RECURSIVE LinRec(_, _, _)
LinRec(a, b, n) == IF n = 0 THEN a ELSE LinRec(b, Add(a, b), n - 1)

\* the first row yields f(2); each pass of the loop one term more
FibExpected(a, b) == LinRec(a, b, 2 + (LoopTo - LoopFrom))

\* C1: the Fibonacci circuit (first row, 7 next rows, output bound to
\* instance row 2) is accepted for public inputs (a, b, out) exactly when
\* out is the recurrence term reached from seed (a, b) -- 55 for (1, 1) --
\* and out + 1 is rejected.
C1_FibonacciAcceptsIffRecurrence ==
    Done("fibonacci") =>
        LET a == instance[1]
            b == instance[2]
            out == instance[3]
        IN /\ (failures = {}) <=> (out = FibExpected(a, b))
           /\ out = Add(FibExpected(a, b), 1) => failures # {}
           /\ (a = 1 /\ b = 1 /\ out = FromU64(55)) => failures = {}

C1_Witness ==
    /\ Done("fibonacci")
    /\ instance = <<1, 1, FromU64(55)>>
    /\ Len(regions) = 1 + (LoopTo - LoopFrom)
    /\ failures = {}

\* C2: the multiplication chain (load a, b, constant k; mul(a,b),
\* mul(ab,ab), mul(k,ab_sq); output bound to instance row 0) is accepted
\* exactly when the public input is k * a^2 * b^2, and that value + 1 is
\* rejected.
C2_NumericAcceptsIffProduct ==
    Done("numeric") =>
        LET expected == Mul(inp.constant, Mul(Mul(inp.a, inp.a), Mul(inp.b, inp.b)))
            out == instance[1]
        IN /\ (failures = {}) <=> (out = expected)
           /\ out = Add(expected, 1) => failures # {}

C2_Witness ==
    /\ Done("numeric")
    /\ inp.constant = 5 /\ inp.a = 2 /\ inp.b = 3
    /\ instance = <<FromU64(5 * 4 * 9)>>
    /\ failures = {}

\* C3: in the direct range check, at a row where q_range_check is enabled
\* the gate vanishes exactly for the values 0 .. RANGE-1: such a value is
\* accepted, any other field element is a "range check" violation.
C3_RangeGateIffInRange ==
    (circuit = "range1" /\ pc \in {"verify", "done"}) =>
        /\ \A r \in Rows :
              QuerySel("q_range_check", r) = 1 =>
                  ((RangeRow(r) = 0) <=> (Query("value", r) \in 0 .. (RANGE - 1)))
        /\ pc = "done" =>
              /\ (failures = {}) <=> (inp.value \in 0 .. (RANGE - 1))
              /\ inp.value >= RANGE => HasGateFailure("range check")

C3_Witness ==
    /\ Done("range1")
    /\ inp.value = RANGE
    /\ \E r \in Rows : ConstraintFailure("range check", 0, r) \in failures

\* the row the lookup region was given
LookupRegionRow == (CHOOSE r \in RegionSet : r.name = "Assign for lookup").start

\* C4: in the combined range check, with the table loaded, every pair
\* (i, j) with i in 0 .. RANGE-1 and j in 0 .. LOOKUP_RANGE-1 satisfies the
\* direct gate and the lookup together: no violation is reported.
C4_RangePairsAccepted ==
    (Done("range2") /\ inp.value \in 0 .. (RANGE - 1)
                    /\ inp.lookup_value \in 0 .. (LOOKUP_RANGE - 1))
        => failures = {}

C4_Witness ==
    /\ Done("range2")
    /\ inp.value = RANGE - 1
    /\ inp.lookup_value = LOOKUP_RANGE - 1
    /\ failures = {}

\* C5: with i in 0 .. RANGE-1 and j outside 0 .. LOOKUP_RANGE-1, the
\* checker reports a lookup violation at the lookup region's row and no
\* violation of the direct "range check" gate at any row.
C5_LookupOnlyFailure ==
    (Done("range2") /\ inp.value \in 0 .. (RANGE - 1)
                    /\ inp.lookup_value \notin 0 .. (LOOKUP_RANGE - 1))
        => /\ LookupFailure(LookupRegionRow) \in failures
           /\ ~HasGateFailure("range check")

C5_Witness ==
    /\ Done("range2")
    /\ inp.value = 0
    /\ inp.lookup_value = LOOKUP_RANGE
    /\ failures = {LookupFailure(LookupRegionRow)}

\* the row of the compose region, and the value a - b tested there
ComposeRows == {r \in Rows : circuit = "compose" /\ QuerySel("selector", r) = 1}
TestedValue(r) == Sub(Query("a", r), Query("b", r))
IsZeroFailure(r) == ConstraintFailure("is zero", 0, r)

\* C6: for every v = a - b, after IsZeroChip::assign has written inv
\* (the inverse of v, or 0 when v = 0), is_zero_expr = 1 - v*inv is 1
\* exactly when v = 0 and 0 otherwise, and the "is zero" gate is satisfied.
C6_IsZeroExprHonest ==
    (circuit = "compose" /\ pc \in {"verify", "done"}) =>
        /\ ComposeRows # {}
        /\ \A r \in ComposeRows :
              LET v == Sub(inp.a, inp.b)
                  inv == Query("value_inv", r)
              IN /\ TestedValue(r) = v
                 /\ IF v = 0 THEN inv = 0 ELSE Mul(v, inv) = 1
                 /\ (is_zero_expr(v, inv) = 1) <=> (v = 0)
                 /\ v # 0 => is_zero_expr(v, inv) = 0
                 /\ IsZeroRow(r) = 0
                 /\ pc = "done" => IsZeroFailure(r) \notin failures

C6_Witness ==
    /\ Done("compose")
    /\ inp.a = 3 /\ inp.b = 2
    /\ \E r \in ComposeRows :
          /\ Mul(TestedValue(r), Query("value_inv", r)) = 1
          /\ is_zero_expr(TestedValue(r), Query("value_inv", r)) = 0
          /\ IsZeroFailure(r) \notin failures

\* C7: for every (a, b, c), ComposeChip::assign writes output = c when
\* a = b and a - b otherwise, and the row satisfies the "is zero" gate and
\* both constraints of the compose gate: the checker accepts
\* (a = 3, b = 2, c = 3 gives output 1).
C7_ComposeHonestAccepted ==
    Done("compose") =>
        /\ ComposeRows # {}
        /\ \A r \in ComposeRows :
              /\ Query("output", r) = (IF inp.a = inp.b THEN inp.c
                                       ELSE Sub(inp.a, inp.b))
              /\ h["output"].value = Query("output", r)
              /\ (inp.a = 3 /\ inp.b = 2 /\ inp.c = 3) => Query("output", r) = 1
        /\ failures = {}

C7_Witness ==
    /\ Done("compose")
    /\ inp.a = 3 /\ inp.b = 2 /\ inp.c = 3
    /\ \E r \in ComposeRows : Query("output", r) = 1
    /\ failures = {}

\* C8: at a row where the "is zero" gate is enabled and the tested value v
\* is non-zero, a witness satisfies the gate only with inv the
\* multiplicative inverse of v, and then is_zero_expr = 0; any other inv is
\* rejected.
C8_NonZeroForcesInverse ==
    Done("compose") =>
        \A r \in ComposeRows :
            LET v == TestedValue(r)
                inv == Query("value_inv", r)
            IN v # 0 =>
                  /\ (IsZeroFailure(r) \notin failures) <=> (Mul(v, inv) = 1)
                  /\ IsZeroFailure(r) \notin failures => is_zero_expr(v, inv) = 0

C8_Witness ==
    /\ Done("compose")
    /\ forged
    /\ \E r \in ComposeRows :
          /\ TestedValue(r) # 0
          /\ Query("a", r) = inp.a /\ Query("b", r) = inp.b
          /\ Mul(TestedValue(r), Query("value_inv", r)) # 1
          /\ IsZeroFailure(r) \in failures

\* C9 (as amended): at a row where the "is zero" gate is enabled and the
\* tested value v is 0, the gate is satisfied whatever inv holds, and
\* is_zero_expr = 1 - v*inv is 1 whatever inv holds.
C9_ZeroAnyInvExprOne ==
    Done("compose") =>
        \A r \in ComposeRows :
            TestedValue(r) = 0 =>
                /\ IsZeroFailure(r) \notin failures
                /\ is_zero_expr(TestedValue(r), Query("value_inv", r)) = 1
                /\ \A w \in F : is_zero_expr(TestedValue(r), w) = 1

C9_Witness ==
    /\ Done("compose")
    /\ forged
    /\ \E r \in ComposeRows :
          /\ TestedValue(r) = 0
          /\ Query("value_inv", r) # 0
          /\ IsZeroFailure(r) \notin failures

\* C9 as the claim states it: at v = 0 the gate is satisfied for any inv,
\* and some inv satisfies the gate while making is_zero_expr differ from 1.
C9_Original ==
    Done("compose") =>
        \A r \in ComposeRows :
            TestedValue(r) = 0 =>
                /\ IsZeroFailure(r) \notin failures
                /\ \E w \in F :
                      /\ is_zero_gate(QuerySel("selector", r), TestedValue(r), w) = 0
                      /\ is_zero_expr(TestedValue(r), w) # 1

\* C10: whenever two cells of one copy-constraint class hold differing
\* values, the checker reports exactly one copy violation naming both
\* cells, whichever of instance binding, constant binding or copy_advice
\* created the class.
C10_OneCopyFailurePerPair ==
    pc = "done" =>
        \A x \in EqCells : \A y \in ClassOf(x) :
            (x # y /\ IsAssigned(x) /\ IsAssigned(y) /\ CellVal(x) # CellVal(y)) =>
                Cardinality({f \in failures : f.kind = "Copy" /\ f.cells = {x, y}}) = 1

C10_Witness ==
    /\ Done("numeric")
    /\ forged
    /\ \E x \in EqCells : \E y \in ClassOf(x) :
          /\ x[1] = "constant"
          /\ y[1] = "advice0"
          /\ {x, y} \notin copies
          /\ CellVal(x) # CellVal(y)
          /\ CopyFailure({x, y}) \in failures

\* the selector that controls a reported violation
ControllingSelector(f) ==
    CASE f.kind = "Lookup" -> "q_lookup"
      [] f.name = "range check" -> "q_range_check"
      [] OTHER -> "selector"

\* C11: for every gate ("add", "mul", "is zero", the compose gate, "range
\* check") and for the range lookup, a row whose controlling selector is 0
\* satisfies the constraint whatever its advice cells hold: every reported
\* gate or lookup violation is at a row whose selector is 1, and at a row
\* with q_lookup = 0 the lookup input is 0, a member of the table.
C11_DisabledRowsVacuous ==
    pc = "done" =>
        /\ \A f \in failures :
              f.kind \in {"Constraint", "Lookup"} =>
                  QuerySel(ControllingSelector(f), f.row) = 1
        /\ circuit = "range2" =>
              \A r \in Rows :
                  QuerySel("q_lookup", r) = 0 =>
                      (LookupRow(r) = 0 /\ 0 \in TableValues)

C11_Witness ==
    /\ pc = "done"
    /\ circuit = "range2"
    /\ sel = {}
    /\ Query("value", 0) >= LOOKUP_RANGE
    /\ failures = {}

\* the rows region n occupies, and whether it covers a cell
RegionRange(n) == regions[n].start .. (regions[n].start + regions[n].rows - 1)
Covers(n, cell) == cell[1] \in regions[n].cols /\ cell[2] \in RegionRange(n)

\* the advice cells a region's closure writes
WritesOf(name) ==
    CASE name \in {"first row", "next row"} -> 3
      [] name \in {"load private", "load constant"} -> 1
      [] name = "mul" -> 3
      [] name \in {"Assign region", "Assign for simple", "Assign for lookup"} -> 1
      [] name = "f(a, b, c) = a == b ? c : a - b" -> 5

RECURSIVE WritesUpTo(_)
WritesUpTo(n) == IF n = 0 THEN 0 ELSE WritesOf(regions[n].name) + WritesUpTo(n - 1)

AssignedAdvice == {x \in DOMAIN grid : x[1] \in AdviceColumns}

\* C12: after any prefix of the assign_region calls of a synthesize, the
\* row ranges of distinct regions are disjoint in every column they share
\* (a mul region covering both rows it uses in advice[0]); so no cell is
\* written by two regions, and the next-row cell an enabled "mul" gate
\* reads belongs to the region that enabled it.
C12_RegionsDisjoint ==
    LET N == 1 .. Len(regions)
    IN /\ \A m \in N : \A n \in N :
             (m # n /\ regions[m].cols \cap regions[n].cols # {}) =>
                 RegionRange(m) \cap RegionRange(n) = {}
       /\ \A n \in N :
             regions[n].name = "mul" =>
                 {<<"advice0", regions[n].start>>,
                  <<"advice0", regions[n].start + MulOutOffset>>}
                     \subseteq {x \in AssignedAdvice : Covers(n, x)}
       /\ Cardinality(AssignedAdvice) = WritesUpTo(Len(regions))
       /\ \A x \in AssignedAdvice : Cardinality({n \in N : Covers(n, x)}) = 1
       /\ circuit = "numeric" =>
             \A r \in Rows :
                 QuerySel("selector", r) = 1 =>
                     \E n \in N :
                         /\ regions[n].name = "mul"
                         /\ regions[n].start = r
                         /\ Covers(n, <<"advice0", r + 1>>)
                         /\ \A m \in N : Covers(m, <<"advice0", r + 1>>) => m = n

C12_Witness ==
    /\ circuit = "numeric"
    /\ pc = "expose"
    /\ Len(regions) = 6
    /\ \E m \in 1 .. 6 : \E n \in 1 .. 6 :
          /\ regions[m].name = "mul" /\ regions[n].name = "mul"
          /\ regions[n].start = regions[m].start + 2
          /\ <<"advice0", regions[m].start + 1>> \in DOMAIN grid

\* the row of the n-th region of the Fibonacci circuit (1 = "first row")
FibRow(n) == regions[n].start
NoCopyFailure == \A f \in failures : f.kind # "Copy"

\* C13: in the Fibonacci circuit, every witness that satisfies all copy
\* constraints has A[i] = B[i-1] and B[i] = C[i-1] in each next-row region,
\* although from the second iteration on A's cell is copied from the C cell
\* of two regions earlier, not from the previous region's B cell (they are
\* in one class); with the "add" gate, C[i] = B[i-1] + C[i-1] on every
\* enabled row.
C13_FibonacciRowsChained ==
    circuit = "fibonacci" =>
        \A n \in 2 .. Len(regions) :
            LET r == FibRow(n)
                q == FibRow(n - 1)
            IN /\ <<"col_a", r>> \in ClassOf(<<"col_b", q>>)
               /\ <<"col_b", r>> \in ClassOf(<<"col_c", q>>)
               /\ n >= 3 =>
                     /\ Copy(<<"col_a", r>>, <<"col_c", FibRow(n - 2)>>) \in copies
                     /\ Copy(<<"col_a", r>>, <<"col_b", q>>) \notin copies
               /\ (pc = "done" /\ NoCopyFailure) =>
                     /\ Query("col_a", r) = Query("col_b", q)
                     /\ Query("col_b", r) = Query("col_c", q)
                     /\ ConstraintFailure("add", 0, r) \notin failures =>
                           Query("col_c", r) = Add(Query("col_b", q), Query("col_c", q))

C13_Witness ==
    /\ Done("fibonacci")
    /\ forged
    /\ Len(regions) = 1 + (LoopTo - LoopFrom)
    /\ NoCopyFailure
    /\ HasGateFailure("add")
    /\ \A n \in 2 .. Len(regions) : Query("col_a", FibRow(n)) = Query("col_b", FibRow(n - 1))

\* what f(a, b, c) = a == b ? c : a - b  evaluates to
ComposeF(a, b, c) == IF a = b THEN c ELSE Sub(a, b)

\* C14: in the composed zero-test circuit, every row (any a, b, c, output and
\* any value of the auxiliary inverse column) that passes the "is zero" gate
\* and both constraints of "f(a, b, c) = a == b ? c : a - b" with the selector
\* enabled has output = c when a = b and output = a - b when a # b; the same
\* holds of the three polynomials for every c of the field.
C14_ComposeSound ==
    Done("compose") =>
        \A r \in ComposeRows :
            LET a == Query("a", r)
                b == Query("b", r)
                output == Query("output", r)
                inv == Query("value_inv", r)
            IN /\ failures = {} => output = ComposeF(a, b, Query("c", r))
               /\ \A c \in F :
                     ( /\ is_zero_gate(1, Sub(a, b), inv) = 0
                       /\ compose_gate_eq(1, a, b, c, output, inv) = 0
                       /\ compose_gate_ne(1, a, b, c, output, inv) = 0 )
                     => output = ComposeF(a, b, c)

C14_Witness ==
    /\ Done("compose")
    /\ h = EmptyFn
    /\ 0 \in ComposeRows
    /\ Query("a", 0) = Query("b", 0)
    /\ Query("value_inv", 0) # 0
    /\ Query("output", 0) = Query("c", 0)
    /\ failures = {}

====
